---- MODULE Spec2Model ----
(***************************************************************************)
(* Model of the resilient API client of Ticket-Agent                       *)
(* (src/unnamed/part_006): HTTPClient.request with its timeout, error      *)
(* mapping and retry/backoff, and WebSocketClient with its reconnect       *)
(* timers.  One JavaScript task (a handler run to completion, together     *)
(* with the microtasks it makes runnable) is one action.                   *)
(***************************************************************************)
EXTENDS Integers, Sequences, FiniteSets, Bags, TLC

VARIABLES
    req,          \* per call of HTTPClient.request: its position and locals
    controller,   \* HTTPClient.controller (this.controller)
    online,       \* navigator.onLine
    everOffline,  \* history: navigator.onLine has been false at some time
    tokenMem,     \* TokenManager.token is set
    tokenLS,      \* localStorage holds 'auth_token'
    sockets,      \* the WebSocket objects created by WebSocketClient.connect
    ws,           \* WebSocketClient.ws: a socket id, or NoSocket for null
    reconnectAttempts,  \* WebSocketClient.reconnectAttempts
    timers,       \* bag of the delays of the pending reconnect timers
    listeners,    \* WebSocketClient.listeners, as <<event, callback>> pairs
    urlThrows,    \* the topics whose URL makes `new WebSocket(url)` throw
    connectCalls, \* number of connect calls made by the callers
    autoConnects, \* history: connect calls made by timers since the last open
    console,      \* the last line the WebSocketClient wrote to the console
    handled,      \* the last on/off call or frame, and the callbacks the
                  \* last handler invoked through emit, in order
    caught,       \* the value last passed to handleApiError
    toasts,       \* the messages shown with toast.error by handleApiError
    request,      \* the body of the last POST /api/submit-ticket
    response,     \* the response the route handler returned for it
    routeConsole, \* the last line the route handler wrote to the console
    inputText,    \* TicketForm: the text in the input
    isLoading,    \* TicketForm: isLoading
    messages,     \* TicketForm: the message list
    fetching,     \* TicketForm: the text of the submission whose fetch is
                  \* pending, or NoFetch
    data,         \* TicketForm: the JSON the handleSubmit that settled last
                  \* read from its response, NoData when its fetch rejected
    email,        \* the text typed into an email field
    emailValid,   \* what validateEmail returned for it, or "unchecked"
    errors,       \* useFormValidation: errors.email ("unset" before it is set)
    serverStatus, \* the status of the ticket in the backend ("none": no ticket)
    cacheStatus,  \* the status of the ticket in the query cache of useTickets
    call,         \* the createTicket / updateTicket call in flight
    wsEvents,     \* the ticket events sent on the WebSocket and not yet received
    updateCalls,  \* number of updateTicket calls made
    logout,       \* how the promise of APIClient.logout settled, and with
                  \* what error
    hook,         \* useTickets of part_008: its tickets, loading and error
    backend,      \* the tickets the backend behind /api/tickets holds
    refreshing,   \* the refresh of the hook in flight
    creating,     \* the createTicket of the hook in flight
    lists,        \* the ticket lists in the query cache, per query key
    deleting,     \* the deleteTicket mutation: its id, its stage, and the
                  \* ids deleted so far
    mounted,      \* the useTickets consumers whose wsRef.current is true,
                  \* each named by the callback it registers
    page,         \* TicketList: page
    filters,      \* TicketList: the search term and the filters chosen
    pagination,   \* TicketList: pagination of the data of its query
    pagesOf       \* the number of pages the backend has for each filter

httpVars == <<req, controller, online, everOffline, tokenMem, tokenLS>>

wsVars == <<sockets, ws, reconnectAttempts, timers, listeners, urlThrows,
            connectCalls, autoConnects, console, handled>>

vars == <<req, controller, online, everOffline, tokenMem, tokenLS,
          sockets, ws, reconnectAttempts, timers, listeners, urlThrows,
          connectCalls, autoConnects, console, handled,
          caught, toasts, request, response, routeConsole,
          inputText, isLoading, messages, fetching, data,
          email, emailValid, errors,
          serverStatus, cacheStatus, call, wsEvents, updateCalls,
          logout, hook, backend, refreshing, creating,
          lists, deleting, mounted,
          page, filters, pagination, pagesOf>>

\* The state outside the API client: utilities, route handler, forms, hooks.
toastVars == <<caught, toasts>>

routeVars == <<request, response, routeConsole>>

formVars == <<inputText, isLoading, messages, fetching, data>>

validationVars == <<email, emailValid, errors>>

ticketVars == <<serverStatus, cacheStatus, call, wsEvents, updateCalls>>

clientVars == <<logout, mounted>>

hookVars == <<hook, backend, refreshing, creating>>

cacheVars == <<lists, deleting>>

listVars == <<page, filters, pagination, pagesOf>>

appVars == <<toastVars, routeVars, formVars, validationVars, ticketVars,
             clientVars, hookVars, cacheVars, listVars>>

(***************************************************************************)
(* Bounds of the model                                                     *)
(***************************************************************************)
\* Calls of HTTPClient.request made on the one apiClient.
MaxRequests == 2

Requests == 1..MaxRequests

(***************************************************************************)
(* Program constants                                                       *)
(***************************************************************************)
DEFAULT_TIMEOUT == 30000
MAX_RETRIES == 3
RETRY_DELAY_BASE == 1000

\* Values of Math.random() * 1000, truncated to whole milliseconds.
Jitters == {0, 999}

\* HTTP status codes a response can carry.
Statuses == {200, 401, 404, 429, 500}

\* What reading the response body as JSON yields: an object, the JSON
\* value null, or a body that is not JSON (response.json() rejects).
Bodies == {"object", "null", "nonjson"}

RECURSIVE Pow2(_)
Pow2(n) == IF n = 0 THEN 1 ELSE 2 * Pow2(n - 1)

(***************************************************************************)
(* Error values: the name of the class and the fields the code reads.      *)
(***************************************************************************)
NoError == [name |-> "none", status |-> 0, msgFetch |-> FALSE]
APIError(status) == [name |-> "APIError", status |-> status, msgFetch |-> FALSE]
NetworkError == [name |-> "NetworkError", status |-> 0, msgFetch |-> FALSE]
TimeoutError == [name |-> "TimeoutError", status |-> 0, msgFetch |-> FALSE]
\* DOMException thrown by fetch / body reading when the signal is aborted.
AbortError == [name |-> "AbortError", status |-> 0, msgFetch |-> FALSE]
\* SyntaxError thrown by response.json() on a body that is not JSON.
JsonSyntaxError == [name |-> "SyntaxError", status |-> 0, msgFetch |-> FALSE]
\* TypeError; msgFetch says whether its message contains 'fetch'.
TypeError(msgFetch) == [name |-> "TypeError", status |-> 0, msgFetch |-> msgFetch]

\* getExponentialBackoffDelay without the exponential factor.
getExponentialBackoffDelayNoGrowth(attempt, jitter) ==
    RETRY_DELAY_BASE + jitter

getExponentialBackoffDelay(attempt, jitter) ==
    RETRY_DELAY_BASE * Pow2(attempt) + jitter

isRetryableError(error) ==
    IF error.name \in {"NetworkError", "TimeoutError"} THEN TRUE
    ELSE IF error.name = "APIError"
         THEN IF error.status # 0
              THEN error.status >= 500 \/ error.status = 429
              ELSE FALSE
         ELSE FALSE

(***************************************************************************)
(* AbortControllers.  The controller created by attempt k of call r is     *)
(* <<r, k>>; NoController is null.                                         *)
(***************************************************************************)
NoController == <<0, 0>>

\* A call of request that has not started.
IdleRequest ==
    [pc |-> "idle", retryAttempt |-> 0, timer |-> "none",
     sig |-> NoController, auth |-> FALSE, status |-> 0, fetches |-> 0,
     delay |-> 0, result |-> NoError]

\* The promise of the call settles with result (NoError: it resolves).  The
\* locals of the call that nothing reads any more are dropped.
Settle(r, result) ==
    [r EXCEPT !.pc = "done", !.result = result,
              !.sig = NoController, !.auth = FALSE, !.delay = 0]

\* The promise of the call rejects with error.
Reject(r, error) == Settle(r, error)

\* The catch block of request, run on the call r with the caught error.
\* The attempt is over, so its fetch no longer listens to any signal.
CatchBlock(r, error, jitter) ==
    LET c == [r EXCEPT !.timer = IF r.timer = "armed" THEN "cleared" ELSE r.timer,
                       !.sig = NoController]
    IN  IF error.name = "AbortError" THEN Reject(c, TimeoutError)
        ELSE IF ~online THEN Reject(c, NetworkError)
        ELSE IF error.name = "TypeError" /\ error.msgFetch THEN Reject(c, NetworkError)
        ELSE IF isRetryableError(error) /\ c.retryAttempt < MAX_RETRIES
             THEN [c EXCEPT !.pc = "sleeping",
                            !.delay = getExponentialBackoffDelay(c.retryAttempt, jitter)]
             ELSE Reject(c, error)

\* The error thrown by the !response.ok branch, errorData being what the
\* inner try/catch left: the parsed body, or {} when parsing failed.
NotOkError(status, body) ==
    IF status = 401 THEN APIError(401)
    ELSE IF body = "null" THEN TypeError(FALSE)
    ELSE APIError(status)

\* The call r once the body of its response has been read.
AfterBody(r, body, jitter) ==
    IF r.pc = "reading_ok"
    THEN IF body = "nonjson"
         THEN CatchBlock(r, JsonSyntaxError, jitter)
         ELSE Settle(r, NoError)
    ELSE CatchBlock(r, NotOkError(r.status, body), jitter)

\* The call r when the signal its fetch was given is aborted.  A pending
\* fetch and a pending read of a success body reject with AbortError; a
\* pending read of an error body rejects inside the inner try/catch, which
\* leaves errorData = {}.
AfterAbort(r, jitter) ==
    IF r.pc = "reading_err"
    THEN CatchBlock(r, NotOkError(r.status, "nonjson"), jitter)
    ELSE CatchBlock(r, AbortError, jitter)

\* No call is between the creation of its controller and its fetch: that
\* continuation is a microtask, so no timer or network task runs before it.
NoSetupPending == \A q \in Requests : req[q].pc # "setup"

HttpInit ==
    /\ req = [r \in Requests |-> IdleRequest]
    /\ controller = NoController
    /\ online = TRUE
    /\ everOffline = FALSE
    /\ tokenMem = FALSE
    /\ tokenLS \in BOOLEAN

\* request() up to its first await: new controller, timer armed, and the
\* token read by ensureValidToken (getToken loads it from localStorage).
SetupAttempt(r, attempt) ==
    /\ controller' = <<r, attempt>>
    /\ tokenMem' = (tokenMem \/ tokenLS)
    /\ req' = [req EXCEPT ![r] = [@ EXCEPT !.pc = "setup",
                                           !.retryAttempt = attempt,
                                           !.timer = "armed",
                                           !.status = 0,
                                           !.sig = NoController,
                                           !.auth = (tokenMem \/ tokenLS)]]
    /\ UNCHANGED <<online, everOffline, tokenLS>>
    /\ UNCHANGED <<wsVars, appVars>>

\* A caller invokes request (through get/post/...).
RequestBegin(r) ==
    /\ req[r].pc = "idle"
    /\ \A q \in Requests : q < r => req[q].pc # "idle"
    /\ SetupAttempt(r, 0)

\* The continuation after `await ensureValidToken()`: fetch is issued with
\* the signal of whatever controller this.controller holds now.
RequestFetch(r) ==
    /\ req[r].pc = "setup"
    /\ req' = [req EXCEPT ![r] = [@ EXCEPT !.pc = "fetching",
                                           !.sig = controller,
                                           !.fetches = @ + 1]]
    /\ UNCHANGED <<controller, online, everOffline, tokenMem, tokenLS>>
    /\ UNCHANGED <<wsVars, appVars>>

\* fetch resolves with a response: clearTimeout, then the body is read.
FetchResponse(r, status) ==
    /\ req[r].pc = "fetching"
    /\ NoSetupPending
    /\ req' = [req EXCEPT ![r] = [@ EXCEPT
                 !.pc = IF status = 200 THEN "reading_ok" ELSE "reading_err",
                 !.status = status,
                 !.timer = "cleared"]]
    /\ UNCHANGED <<controller, online, everOffline, tokenMem, tokenLS>>
    /\ UNCHANGED <<wsVars, appVars>>

\* As BodyRead, but a 401 leaves the token where it is.
BodyReadKeepsToken(r, body, jitter, login) ==
    /\ req[r].pc \in {"reading_ok", "reading_err"}
    /\ NoSetupPending
    /\ req' = [req EXCEPT ![r] = AfterBody(req[r], body, jitter)]
    /\ IF req[r].pc = "reading_ok" /\ login /\ body = "object"
       THEN tokenMem' = TRUE /\ tokenLS' = TRUE
       ELSE UNCHANGED <<tokenMem, tokenLS>>
    /\ UNCHANGED <<controller, online, everOffline>>
    /\ UNCHANGED <<wsVars, appVars>>

\* response.json() settles.  A 401 clears the token.  login says that the
\* call was made by APIClient.login, which stores the access_token of a
\* successful response.
BodyRead(r, body, jitter, login) ==
    /\ req[r].pc \in {"reading_ok", "reading_err"}
    /\ NoSetupPending
    /\ req' = [req EXCEPT ![r] = AfterBody(req[r], body, jitter)]
    /\ IF req[r].pc = "reading_err" /\ req[r].status = 401
       THEN tokenMem' = FALSE /\ tokenLS' = FALSE
       ELSE IF req[r].pc = "reading_ok" /\ login /\ body = "object"
            THEN tokenMem' = TRUE /\ tokenLS' = TRUE
            ELSE UNCHANGED <<tokenMem, tokenLS>>
    /\ UNCHANGED <<controller, online, everOffline>>
    /\ UNCHANGED <<wsVars, appVars>>

\* fetch rejects with a TypeError (DNS failure, refused connection, CORS).
FetchFails(r, msgFetch) ==
    /\ req[r].pc = "fetching"
    /\ NoSetupPending
    /\ req' = [req EXCEPT ![r] = CatchBlock(req[r], TypeError(msgFetch), 0)]
    /\ UNCHANGED <<controller, online, everOffline, tokenMem, tokenLS>>
    /\ UNCHANGED <<wsVars, appVars>>

\* The calls whose fetch was given the signal of controller c and have not
\* finished consuming the response.
UsingSignal(c) ==
    {q \in Requests : /\ req[q].pc \in {"fetching", "reading_ok", "reading_err"}
                      /\ req[q].sig = c}

\* The timeout timer of call r fires: this.controller?.abort().
RequestTimeout(r, jitter) ==
    /\ req[r].timer = "armed"
    /\ NoSetupPending
    /\ LET fired == [req EXCEPT ![r] = [@ EXCEPT !.timer = "fired"]]
           hit == UsingSignal(controller)
       IN  /\ req' = [q \in Requests |->
                        IF q \in hit THEN AfterAbort(fired[q], jitter[q])
                        ELSE fired[q]]
           /\ IF \E q \in hit : req[q].pc = "reading_err" /\ req[q].status = 401
              THEN tokenMem' = FALSE /\ tokenLS' = FALSE
              ELSE UNCHANGED <<tokenMem, tokenLS>>
    /\ UNCHANGED <<controller, online, everOffline>>
    /\ UNCHANGED <<wsVars, appVars>>

\* sleep(delay) resolves: `return this.request(endpoint, options, retryAttempt + 1)`.
SleepDone(r) ==
    /\ req[r].pc = "sleeping"
    /\ NoSetupPending
    /\ SetupAttempt(r, req[r].retryAttempt + 1)

\* The browser goes offline or comes back online.
ToggleOnline ==
    /\ online' = ~online
    /\ everOffline' = TRUE
    /\ UNCHANGED <<req, controller, tokenMem, tokenLS>>
    /\ UNCHANGED <<wsVars, appVars>>

HttpNext ==
    \/ \E r \in Requests : RequestBegin(r)
    \/ \E r \in Requests : RequestFetch(r)
    \/ \E r \in Requests, status \in Statuses : FetchResponse(r, status)
    \/ \E r \in Requests, body \in Bodies, jitter \in Jitters, login \in BOOLEAN :
          BodyRead(r, body, jitter, login)
    \/ \E r \in Requests, msgFetch \in BOOLEAN : FetchFails(r, msgFetch)
    \/ \E r \in Requests, jitter \in [Requests -> Jitters] : RequestTimeout(r, jitter)
    \/ \E r \in Requests : SleepDone(r)
    \/ ToggleOnline

InFlight == {q \in Requests : req[q].pc \notin {"idle", "done"}}

\* A caller that awaits every call before it makes the next one calls.
RequestBeginSeq(r) ==
    /\ InFlight = {}
    /\ RequestBegin(r)

\* As HttpNext, the calls being made one after the other.
HttpSeqNext ==
    \/ \E r \in Requests : RequestBeginSeq(r)
    \/ \E r \in Requests : RequestFetch(r)
    \/ \E r \in Requests, status \in Statuses : FetchResponse(r, status)
    \/ \E r \in Requests, body \in Bodies, jitter \in Jitters, login \in BOOLEAN :
          BodyRead(r, body, jitter, login)
    \/ \E r \in Requests, msgFetch \in BOOLEAN : FetchFails(r, msgFetch)
    \/ \E r \in Requests, jitter \in [Requests -> Jitters] : RequestTimeout(r, jitter)
    \/ \E r \in Requests : SleepDone(r)
    \/ ToggleOnline

(***************************************************************************)
(* WebSocketClient                                                         *)
(***************************************************************************)
\* Calls of connect made by the callers of the client.
MaxConnectCalls == 2

maxReconnectAttempts == 5
reconnectDelay == 1000

\* connect() without ticketId ("all": .../tickets) or with a ticket id.
Topics == {"all", "T1"}

\* Codes of the CloseEvent: normal closure, going away, abnormal closure.
CloseCodes == {1000, 1001, 1006}

Events == {"message", "ticket_update"}
Callbacks == {"cb1", "cb2"}

\* What a received frame holds: text that JSON.parse rejects, JSON without
\* a truthy type, or JSON whose type is the name of an event.
Frames == {"unparseable", "null", "untyped"} \cup Events

NoSocket == 0
SocketIds == 1..(MaxConnectCalls + 1)

\* A socket id no WebSocket object has: readyState "none".  est: the
\* opening handshake has completed.
NoSocketObject == [readyState |-> "none", topic |-> "all", est |-> FALSE]

NoLine == [ev |-> "none", code |-> 0, attempts |-> 0, delay |-> 0]

\* No on/off call or frame was handled last and no callback was invoked.
NoHandled == [op |-> "none", event |-> "none", callback |-> "none", calls |-> <<>>]

WsInit ==
    /\ sockets = [s \in SocketIds |-> NoSocketObject]
    /\ ws = NoSocket
    /\ reconnectAttempts = 0
    /\ timers = EmptyBag
    /\ listeners = {}
    /\ urlThrows \in SUBSET Topics
    /\ connectCalls = 0
    /\ autoConnects = 0
    /\ console = NoLine
    /\ handled = NoHandled

\* The delay scheduleReconnect computes when reconnectAttempts = attempts.
ReconnectDelay(attempts) == reconnectDelay * Pow2(attempts)

\* The delays a reconnect timer can be set with: the count passes
\* maxReconnectAttempts only by connect calls that throw.
DelayValues == {ReconnectDelay(n) : n \in 0..(maxReconnectAttempts + MaxConnectCalls)}

\* The callback's test with `<` in place of `<=`.
TimerMayConnectStrict(attempts) == attempts < maxReconnectAttempts

\* The test of the reconnect timer's callback.
TimerMayConnect(attempts) == attempts <= maxReconnectAttempts

\* The test of onclose before it calls scheduleReconnect.
CloseSchedules(code, attempts) ==
    code # 1000 /\ attempts < maxReconnectAttempts

\* scheduleReconnect(): the delay from the current count, the count
\* incremented, a timer set.
scheduleReconnect(pending) ==
    /\ timers' = pending (+) SetToBag({ReconnectDelay(reconnectAttempts)})
    /\ reconnectAttempts' = reconnectAttempts + 1

\* The sockets once this.ws no longer refers to a closed socket: nothing
\* refers to that object any more.
Dropped(socks, s) ==
    IF s # NoSocket /\ socks[s].readyState = "closed"
    THEN [socks EXCEPT ![s] = NoSocketObject]
    ELSE socks

FreeIds == {s \in SocketIds : sockets[s].readyState = "none"}

\* The body of connect(ticketId), pending being the timers still set.
\* Either the constructor throws and the catch block schedules a reconnect,
\* or this.ws becomes the new socket, with the four handlers attached.
connect(topic, pending) ==
    IF topic \in urlThrows
    THEN /\ scheduleReconnect(pending)
         /\ console' = [ev |-> "connect_failed", code |-> 0,
                        attempts |-> reconnectAttempts,
                        delay |-> ReconnectDelay(reconnectAttempts)]
         /\ UNCHANGED <<sockets, ws>>
    ELSE LET s == CHOOSE x \in FreeIds : \A y \in FreeIds : x <= y
         IN  /\ sockets' = [Dropped(sockets, ws) EXCEPT ![s] =
                   [readyState |-> "connecting", topic |-> topic, est |-> FALSE]]
             /\ ws' = s
             /\ timers' = pending
             /\ console' = [ev |-> "connect", code |-> 0,
                            attempts |-> reconnectAttempts, delay |-> 0]
             /\ UNCHANGED reconnectAttempts

\* The members of a set of callbacks, one after the other.
RECURSIVE SetToSeq(_)
SetToSeq(S) ==
    IF S = {} THEN <<>>
    ELSE LET x == CHOOSE y \in S : TRUE
         IN  <<x>> \o SetToSeq(S \ {x})

\* emit(event) that also invokes the callbacks of every other event.
emitToAll(event) ==
    [i \in 1..Cardinality(listeners) |-> <<event, SetToSeq(listeners)[i][2]>>]

\* emit(event): the invocations forEach makes on the Set of the callbacks
\* registered under event; a callback that throws does not stop the others.
emit(event) ==
    LET callbacks == SetToSeq({l[2] : l \in {x \in listeners : x[1] = event}})
    IN  [i \in 1..Len(callbacks) |-> <<event, callbacks[i]>>]

\* onmessage that emits the event of the type before 'message'.
onmessageTypeFirst(frame) ==
    IF frame = "unparseable" THEN <<>>
    ELSE (IF frame \in Events THEN emit(frame) ELSE <<>>) \o emit("message")

\* The body of onmessage: JSON.parse, emit('message', data) and, when
\* data.type is truthy, emit(data.type, data); a parse error is logged.
\* On the JSON text null, data.type throws after emit('message', null) and
\* the catch block logs it as well.
onmessage(frame) ==
    IF frame = "unparseable" THEN <<>>
    ELSE emit("message") \o (IF frame \in Events THEN emit(frame) ELSE <<>>)

\* The listeners after on(event, callback): the Set of the event has it.
on(event, callback) == listeners \cup {<<event, callback>>}

\* The listeners after off(event, callback), and after off(event) when
\* callback is "none" (undefined).
off(event, callback) ==
    IF callback # "none"
    THEN listeners \ {<<event, callback>>}
    ELSE {l \in listeners : l[1] # event}

\* A caller calls connect(ticketId) (APIClient.connectWebSocket).
Connect(topic) ==
    /\ connectCalls < MaxConnectCalls
    /\ connectCalls' = connectCalls + 1
    /\ connect(topic, timers)
    /\ handled' = NoHandled
    /\ UNCHANGED <<listeners, urlThrows, autoConnects>>
    /\ UNCHANGED <<httpVars, appVars>>

\* onopen of socket s.
SocketOpen(s) ==
    /\ sockets[s].readyState = "connecting"
    /\ sockets' = [sockets EXCEPT ![s] = [@ EXCEPT !.readyState = "open", !.est = TRUE]]
    /\ reconnectAttempts' = 0
    /\ autoConnects' = 0
    /\ console' = [ev |-> "connected", code |-> 0,
                   attempts |-> reconnectAttempts, delay |-> 0]
    /\ handled' = [NoHandled EXCEPT !.calls = emit("connect")]
    /\ UNCHANGED <<ws, timers, listeners, urlThrows, connectCalls>>
    /\ UNCHANGED <<httpVars, appVars>>

\* The codes the close event of a socket can carry: a socket whose
\* handshake never completed fails with 1006; an open socket is closed by
\* the server or the network with any code; after close(1000) on an
\* established socket the closing handshake completes (1000) or is lost (1006).
PossibleCloseCodes(sock) ==
    IF ~sock.est THEN {1006}
    ELSE IF sock.readyState = "closing" THEN {1000, 1006}
    ELSE CloseCodes

\* onclose of socket s with event.code = code.
SocketClose(s, code) ==
    /\ sockets[s].readyState \in {"connecting", "open", "closing"}
    /\ code \in PossibleCloseCodes(sockets[s])
    /\ sockets' = [sockets EXCEPT ![s] =
                     IF ws = s THEN [@ EXCEPT !.readyState = "closed"]
                     ELSE NoSocketObject]
    /\ handled' = [NoHandled EXCEPT !.calls = emit("disconnect")]
    /\ IF CloseSchedules(code, reconnectAttempts)
       THEN /\ scheduleReconnect(timers)
            /\ console' = [ev |-> "closed", code |-> code,
                           attempts |-> reconnectAttempts,
                           delay |-> ReconnectDelay(reconnectAttempts)]
       ELSE /\ console' = [ev |-> "closed", code |-> code,
                           attempts |-> reconnectAttempts, delay |-> 0]
            /\ UNCHANGED <<timers, reconnectAttempts>>
    /\ UNCHANGED <<ws, listeners, urlThrows, connectCalls, autoConnects>>
    /\ UNCHANGED <<httpVars, appVars>>

\* A reconnect timer set with delay d fires.
ReconnectTimer(d) ==
    /\ d \in BagToSet(timers)
    /\ LET pending == timers (-) SetToBag({d})
       IN  IF TimerMayConnect(reconnectAttempts)
           THEN /\ connect("all", pending)
                /\ autoConnects' = autoConnects + 1
           ELSE /\ timers' = pending
                /\ UNCHANGED <<sockets, ws, reconnectAttempts, autoConnects, console>>
    /\ handled' = NoHandled
    /\ UNCHANGED <<listeners, urlThrows, connectCalls>>
    /\ UNCHANGED <<httpVars, appVars>>

\* disconnect(): close(1000) on this.ws, this.ws = null, listeners cleared.
disconnect ==
    /\ IF ws # NoSocket
       THEN /\ sockets' = Dropped([sockets EXCEPT ![ws] =
                   IF @.readyState \in {"connecting", "open"}
                   THEN [@ EXCEPT !.readyState = "closing"] ELSE @], ws)
            /\ ws' = NoSocket
       ELSE UNCHANGED <<sockets, ws>>
    /\ listeners' = {}
    /\ handled' = NoHandled
    /\ UNCHANGED <<reconnectAttempts, timers, urlThrows, connectCalls,
                   autoConnects, console>>

\* A caller invokes disconnect (APIClient.disconnectWebSocket).
Disconnect ==
    /\ disconnect
    /\ UNCHANGED <<httpVars, appVars>>

\* onmessage of socket s with a frame.
SocketMessage(s, frame) ==
    /\ sockets[s].readyState = "open"
    /\ handled' = [op |-> "frame", event |-> frame, callback |-> "none",
                   calls |-> onmessage(frame)]
    /\ console' = IF frame \in {"unparseable", "null"}
                  THEN [NoLine EXCEPT !.ev = "parse_failed"]
                  ELSE console
    /\ UNCHANGED <<sockets, ws, reconnectAttempts, timers, listeners, urlThrows,
                   connectCalls, autoConnects>>
    /\ UNCHANGED <<httpVars, appVars>>

\* on(event, callback).
On(event, callback) ==
    /\ listeners' = on(event, callback)
    /\ handled' = [op |-> "on", event |-> event, callback |-> callback,
                   calls |-> <<>>]
    /\ UNCHANGED <<sockets, ws, reconnectAttempts, timers, urlThrows,
                   connectCalls, autoConnects, console>>
    /\ UNCHANGED <<httpVars, appVars>>

\* off(event, callback), and off(event) when callback is "none".
Off(event, callback) ==
    /\ listeners' = off(event, callback)
    /\ handled' = [op |-> "off", event |-> event, callback |-> callback,
                   calls |-> <<>>]
    /\ UNCHANGED <<sockets, ws, reconnectAttempts, timers, urlThrows,
                   connectCalls, autoConnects, console>>
    /\ UNCHANGED <<httpVars, appVars>>

WsNext ==
    \/ \E topic \in Topics : Connect(topic)
    \/ \E s \in SocketIds : SocketOpen(s)
    \/ \E s \in SocketIds, code \in CloseCodes : SocketClose(s, code)
    \/ \E d \in DelayValues : ReconnectTimer(d)
    \/ Disconnect

\* The first call of connect by a caller.
ConnectOnce(topic) == connectCalls = 0 /\ Connect(topic)

\* The subscription interface on a client that is connected once: frames
\* arrive and callers subscribe and unsubscribe while the connection opens,
\* closes and reconnects.
WsEventsNext ==
    \/ \E topic \in Topics : ConnectOnce(topic)
    \/ \E s \in SocketIds : SocketOpen(s)
    \/ \E s \in SocketIds, frame \in Frames : SocketMessage(s, frame)
    \/ \E s \in SocketIds, code \in CloseCodes : SocketClose(s, code)
    \/ \E d \in DelayValues : ReconnectTimer(d)
    \/ Disconnect
    \/ \E event \in Events, callback \in Callbacks : On(event, callback)
    \/ \E event \in Events, callback \in Callbacks \cup {"none"} : Off(event, callback)

(***************************************************************************)
(* handleApiError                                                          *)
(***************************************************************************)
\* Calls of handleApiError.
MaxToasts == 2

\* The values a catch block passes to handleApiError.  class: one of the
\* three exported classes, or "Error" for every other value; status:
\* error.status, 0 for undefined; message: error.message, empty or a text.
ErrorValues ==
    {e \in [class : {"NetworkError", "TimeoutError", "APIError", "Error"},
            status : {0, 400, 401, 404, 429, 500, 503},
            message : {"", "Ticket not found"}] :
        e.class # "APIError" => e.status = 0}

NoValue == [class |-> "none", status |-> 0, message |-> ""]

\* handleApiError without the special case of status 500.
handleApiErrorNo500(error) ==
    IF error.class = "NetworkError"
    THEN <<"Network connection failed. Please check your internet connection.">>
    ELSE IF error.class = "TimeoutError"
    THEN <<"Request timed out. Please try again.">>
    ELSE IF error.class = "APIError"
    THEN IF error.status = 429
         THEN <<"Too many requests. Please wait a moment and try again.">>
         ELSE IF error.message # ""
         THEN <<error.message>>
         ELSE <<"An error occurred while processing your request.">>
    ELSE <<"An unexpected error occurred. Please try again.">>

\* handleApiError(error): the toast.error calls it makes, in order.
handleApiError(error) ==
    IF error.class = "NetworkError"
    THEN <<"Network connection failed. Please check your internet connection.">>
    ELSE IF error.class = "TimeoutError"
    THEN <<"Request timed out. Please try again.">>
    ELSE IF error.class = "APIError"
    THEN IF error.status = 429
         THEN <<"Too many requests. Please wait a moment and try again.">>
         ELSE IF error.status = 500
         THEN <<"Server error occurred. Please try again later.">>
         ELSE IF error.message # ""
         THEN <<error.message>>
         ELSE <<"An error occurred while processing your request.">>
    ELSE <<"An unexpected error occurred. Please try again.">>

ToastInit ==
    /\ caught = NoValue
    /\ toasts = <<>>

\* A catch block calls handleApiError(error).
HandleApiError(error) ==
    /\ Len(toasts) < MaxToasts
    /\ caught' = error
    /\ toasts' = toasts \o handleApiError(error)
    /\ UNCHANGED <<httpVars, wsVars, routeVars, formVars, validationVars, ticketVars,
                   clientVars, hookVars,
                   cacheVars, listVars>>

ToastNext == \E error \in ErrorValues : HandleApiError(error)

(***************************************************************************)
(* POST /api/submit-ticket (src/frontend/src/app/layout.tsx)               *)
(***************************************************************************)
\* Words of a ticket text.
MaxWords == 2

\* Strings are sequences of characters.  The words tickets are made of:
\* the empty word, words that hold a keyword (in upper case, as a part of
\* a longer word) and words that hold none.
Words ==
    { <<>>,
      <<"V", "P", "N">>,
      <<"e", "m", "a", "i", "l">>,
      <<"L", "a", "p", "t", "o", "p">>,
      <<"h", "a", "p", "p", "y">>,
      <<"l", "o", "g", "i", "n">>,
      <<"p", "r", "i", "n", "t", "e", "r">>,
      <<"u", "r", "g", "e", "n", "t">>,
      <<"a", "s", "a", "p">>,
      <<"s", "o", "m", "e", "t", "i", "m", "e">>,
      <<"d", "o", "w", "n", "l", "o", "a", "d">>,
      <<"n", "a", "h", "i">> }

\* The words joined with single spaces.
RECURSIVE Join(_)
Join(words) ==
    IF Len(words) = 0 THEN <<>>
    ELSE IF Len(words) = 1 THEN words[1]
    ELSE words[1] \o <<" ">> \o Join(Tail(words))

Texts == UNION {{Join(words) : words \in [1..n -> Words]} : n \in 0..MaxWords}

\* Character.toLowerCase on the letters of Words.
Lower(c) ==
    CASE c = "V" -> "v"
      [] c = "P" -> "p"
      [] c = "N" -> "n"
      [] c = "L" -> "l"
      [] OTHER -> c

toLowerCase(text) == [i \in 1..Len(text) |-> Lower(text[i])]

\* String.prototype.includes.
includes(text, word) ==
    \E i \in 0..(Len(text) - Len(word)) : SubSeq(text, i + 1, i + Len(word)) = word

\* String.prototype.trim.
trim(text) ==
    LET inked == {i \in 1..Len(text) : text[i] # " "}
    IN  IF inked = {} THEN <<>>
        ELSE SubSeq(text, CHOOSE i \in inked : \A j \in inked : i <= j,
                          CHOOSE i \in inked : \A j \in inked : i >= j)

hindiWords ==
    { <<"n", "a", "h", "i">>, <<"h", "a", "i">>, <<"k", "y", "a">>,
      <<"k", "a", "i", "s", "e">>, <<"m", "e", "i", "n">>, <<"k", "o">>,
      <<"s", "e">>, <<"a", "u", "r">>, <<"k", "a", "a", "m">>,
      <<"c", "h", "a", "l">> }

detectLanguage(text) ==
    IF \E word \in hindiWords : includes(toLowerCase(text), word)
    THEN "Hindi+English" ELSE "English"

\* The keywords classifyIssue and determineUrgency look for, per branch.
Keywords(label) ==
    CASE label = "Network/VPN" ->
           { <<"v", "p", "n">>, <<"n", "e", "t", "w", "o", "r", "k">>,
             <<"w", "i", "f", "i">>, <<"i", "n", "t", "e", "r", "n", "e", "t">> }
      [] label = "Email" ->
           { <<"e", "m", "a", "i", "l">>, <<"m", "a", "i", "l">> }
      [] label = "Hardware" ->
           { <<"l", "a", "p", "t", "o", "p">>,
             <<"c", "o", "m", "p", "u", "t", "e", "r">>,
             <<"h", "a", "r", "d", "w", "a", "r", "e">> }
      [] label = "Software" ->
           { <<"s", "o", "f", "t", "w", "a", "r", "e">>,
             <<"a", "p", "p", "l", "i", "c", "a", "t", "i", "o", "n">>,
             <<"a", "p", "p">> }
      [] label = "Account Access" ->
           { <<"p", "a", "s", "s", "w", "o", "r", "d">>, <<"l", "o", "g", "i", "n">>,
             <<"a", "c", "c", "e", "s", "s">> }
      [] label = "Critical" ->
           { <<"u", "r", "g", "e", "n", "t">>,
             <<"c", "r", "i", "t", "i", "c", "a", "l">>, <<"d", "o", "w", "n">>,
             <<"e", "m", "e", "r", "g", "e", "n", "c", "y">> }
      [] label = "High" ->
           { <<"i", "m", "p", "o", "r", "t", "a", "n", "t">>, <<"a", "s", "a", "p">>,
             <<"q", "u", "i", "c", "k", "l", "y">> }
      [] label = "Low" ->
           { <<"w", "h", "e", "n", " ", "p", "o", "s", "s", "i", "b", "l", "e">>,
             <<"s", "o", "m", "e", "t", "i", "m", "e">> }

\* lowerText.includes(k) for one of the keywords of the branch.
includesAny(lowerText, label) == \E k \in Keywords(label) : includes(lowerText, k)

classifyIssue(text) ==
    LET lowerText == toLowerCase(text)
    IN  IF includesAny(lowerText, "Network/VPN") THEN "Network/VPN"
        ELSE IF includesAny(lowerText, "Email") THEN "Email"
        ELSE IF includesAny(lowerText, "Hardware") THEN "Hardware"
        ELSE IF includesAny(lowerText, "Software") THEN "Software"
        ELSE IF includesAny(lowerText, "Account Access") THEN "Account Access"
        ELSE "General Support"

determineUrgency(text) ==
    LET lowerText == toLowerCase(text)
    IN  IF includesAny(lowerText, "Critical") THEN "Critical"
        ELSE IF includesAny(lowerText, "High") THEN "High"
        ELSE IF includesAny(lowerText, "Low") THEN "Low"
        ELSE "Medium"

\* generateMockResponse(text): the response set chosen (by category, or
\* the default set) and the language of the text taken from it.
generateMockResponse(text) ==
    [set |-> IF classifyIssue(text) \in {"Network/VPN", "Email"}
             THEN classifyIssue(text) ELSE "default",
     lang |-> IF detectLanguage(text) = "Hindi+English" THEN "hi" ELSE "en"]

\* What JSON.parse leaves in body.text: nothing (undefined), a falsy value
\* that is not a string (null, 0, false), a truthy value that is not a
\* string (a number, true, an array, an object), or a string.
TextValues ==
    {[type |-> t, chars |-> <<>>] : t \in {"undefined", "falsy", "truthy"}}
    \cup {[type |-> "string", chars |-> text] : text \in Texts}

\* body.source: undefined, or a string.
SourceValues == {"undefined", "web", "email", "sms", "glpi", "solman", "phone"}

\* The request body: text that is not JSON, the JSON value null, or an
\* object (any other JSON value has no fields and reads as the empty object).
RequestBodies ==
    {[kind |-> k, text |-> [type |-> "undefined", chars |-> <<>>],
      source |-> "undefined"] : k \in {"nonjson", "null"}}
    \cup [kind : {"object"}, text : TextValues, source : SourceValues]

NoRequest ==
    [kind |-> "none", text |-> [type |-> "undefined", chars |-> <<>>],
     source |-> "undefined"]

NoTicket ==
    [source |-> "", language |-> "", category |-> "", urgency |-> "",
     ai_response |-> [set |-> "", lang |-> ""], status |-> ""]

NoResponse == [status |-> 0, error |-> "", ticket |-> NoTicket]

\* !text
Falsy(text) ==
    \/ text.type \in {"undefined", "falsy"}
    \/ text.type = "string" /\ text.chars = <<>>

\* The try block of POST throws: request.json() rejects, null cannot be
\* destructured, or text is truthy and has no trim method.
Throws(body) ==
    \/ body.kind \in {"nonjson", "null"}
    \/ ~Falsy(body.text) /\ body.text.type # "string"

\* POST that answers 200 for whitespace-only text.
PostNoTrim(body) ==
    IF Throws(body)
    THEN [status |-> 500, error |-> "Failed to process ticket", ticket |-> NoTicket]
    ELSE IF Falsy(body.text)
    THEN [status |-> 400, error |-> "Ticket text is required", ticket |-> NoTicket]
    ELSE [status |-> 200, error |-> "",
          ticket |-> [source |-> IF body.source = "undefined" THEN "web"
                                 ELSE body.source,
                      language |-> detectLanguage(body.text.chars),
                      category |-> classifyIssue(body.text.chars),
                      urgency |-> determineUrgency(body.text.chars),
                      ai_response |-> generateMockResponse(body.text.chars),
                      status |-> "open"]]

\* POST(request): the NextResponse returned, status and JSON.
Post(body) ==
    IF Throws(body)
    THEN [status |-> 500, error |-> "Failed to process ticket", ticket |-> NoTicket]
    ELSE IF Falsy(body.text) \/ trim(body.text.chars) = <<>>
    THEN [status |-> 400, error |-> "Ticket text is required", ticket |-> NoTicket]
    ELSE [status |-> 200, error |-> "",
          ticket |-> [source |-> IF body.source = "undefined" THEN "web"
                                 ELSE body.source,
                      language |-> detectLanguage(body.text.chars),
                      category |-> classifyIssue(body.text.chars),
                      urgency |-> determineUrgency(body.text.chars),
                      ai_response |-> generateMockResponse(body.text.chars),
                      status |-> "open"]]

RouteInit ==
    /\ request = NoRequest
    /\ response = NoResponse
    /\ routeConsole = "none"

\* The route handler runs for a request with the given body; the server
\* runs the handler of one request to its return before the next.
SubmitTicket(body) ==
    /\ request = NoRequest
    /\ request' = body
    /\ response' = Post(body)
    /\ routeConsole' = IF Throws(body) THEN "Error processing ticket:"
                        ELSE IF Post(body).status = 200 THEN "Received ticket:"
                        ELSE "none"
    /\ UNCHANGED <<httpVars, wsVars, toastVars, formVars, validationVars, ticketVars,
                   clientVars, hookVars,
                   cacheVars, listVars>>

\* The response has been sent: the handler keeps nothing of the request.
ResponseSent ==
    /\ request # NoRequest
    /\ request' = NoRequest
    /\ response' = NoResponse
    /\ routeConsole' = "none"
    /\ UNCHANGED <<httpVars, wsVars, toastVars, formVars, validationVars, ticketVars,
                   clientVars, hookVars,
                   cacheVars, listVars>>

RouteNext ==
    \/ \E body \in RequestBodies : SubmitTicket(body)
    \/ ResponseSent

(***************************************************************************)
(* The chat TicketForm (src/unnamed/part_009)                              *)
(***************************************************************************)
\* Submissions made in the form.
MaxSubmits == 2

\* What the user types: nothing, a space, words with and without keywords.
InputTexts ==
    { <<>>, <<" ">>, <<"V", "P", "N">>, <<"h", "a", "p", "p", "y">>,
      <<"p", "r", "i", "n", "t", "e", "r">> }

NoFetch == <<"none">>

\* What response.json() yields: a body that is not JSON (it rejects), the
\* JSON value null, or an object whose ai_response and category are a
\* text or falsy ("": missing or empty).
ResponseData ==
    [kind : {"nonjson", "null"}, ai_response : {""}, category : {""}]
    \cup [kind : {"object"}, ai_response : {"", "Restart your VPN client"},
          category : {"", "Email"}]

NoData == [kind |-> "none", ai_response |-> "", category |-> ""]

\* The JSON of a response of the route handler.
DataOf(resp) ==
    [kind |-> "object", ai_response |-> resp.ticket.ai_response.set,
     category |-> resp.ticket.category]

\* The messages of the list: kind is "welcome", "user", "loading", and for
\* the replies "ai_response" (the reply is data.ai_response), "categorized"
\* (the reply names a category) or "connectivity" (the catch block's text).
Message(kind, text, category) ==
    [isUser |-> kind = "user", isLoading |-> kind = "loading",
     kind |-> kind, text |-> text, category |-> category]

\* The reply that names no category when the response has none.
replyNoFallback(d) ==
    IF d.kind \in {"nonjson", "null"} THEN Message("connectivity", <<>>, "")
    ELSE IF d.ai_response # "" THEN Message("ai_response", <<>>, "")
    ELSE Message("categorized", <<>>, d.category)

\* The assistant message handleSubmit appends for the JSON d: reading a
\* field of null throws, as does a body that is not JSON, and the catch
\* block answers.
reply(d) ==
    IF d.kind \in {"nonjson", "null"} THEN Message("connectivity", <<>>, "")
    ELSE IF d.ai_response # "" THEN Message("ai_response", <<>>, "")
    ELSE Message("categorized", <<>>,
                 IF d.category # "" THEN d.category ELSE "General Support")

\* A filter that keeps the loading message.
KeepLoading(msg) == TRUE

\* prev.filter(msg => !msg.isLoading)
NotLoading(msg) == ~msg.isLoading

FormInit ==
    /\ inputText = <<>>
    /\ isLoading = FALSE
    /\ messages = <<Message("welcome", <<>>, "")>>
    /\ fetching = NoFetch
    /\ data = NoData

\* onChange of the input, or handleSuggestion, whose buttons stay enabled
\* while isLoading.
SetInputText(text) ==
    /\ inputText' = text
    /\ UNCHANGED <<isLoading, messages, fetching, data>>
    /\ UNCHANGED <<httpVars, wsVars, toastVars, routeVars, validationVars, ticketVars,
                   clientVars, hookVars,
                   cacheVars, listVars>>

\* handleSubmit up to its await of fetch.  The button and the input are
\* disabled while isLoading.
HandleSubmit ==
    /\ ~isLoading
    /\ Cardinality({i \in 1..Len(messages) : messages[i].isUser}) < MaxSubmits
    /\ IF trim(inputText) = <<>>
       THEN UNCHANGED formVars
       ELSE /\ messages' = messages \o <<Message("user", inputText, ""),
                                         Message("loading", <<>>, "")>>
            /\ inputText' = <<>>
            /\ isLoading' = TRUE
            /\ fetching' = inputText
            /\ UNCHANGED data
    /\ UNCHANGED <<httpVars, wsVars, toastVars, routeVars, validationVars, ticketVars,
                   clientVars, hookVars,
                   cacheVars, listVars>>

\* The route handler of layout.tsx answers the fetch of the form.
ServeFetch ==
    /\ fetching # NoFetch
    /\ SubmitTicket([kind |-> "object",
                     text |-> [type |-> "string", chars |-> fetching],
                     source |-> "web"])

\* handleSubmit after its awaits: the loading message is filtered out, the
\* reply appended, and finally isLoading is false.
FormSettle(d) ==
    /\ data' = d
    /\ messages' = SelectSeq(messages, NotLoading) \o <<reply(d)>>
    /\ isLoading' = FALSE
    /\ fetching' = NoFetch
    /\ UNCHANGED inputText

\* The response of the route handler arrives.
ReceiveRouteResponse ==
    /\ fetching # NoFetch
    /\ response # NoResponse
    /\ FormSettle(DataOf(response))
    /\ request' = NoRequest
    /\ response' = NoResponse
    /\ routeConsole' = "none"
    /\ UNCHANGED <<httpVars, wsVars, toastVars, validationVars, ticketVars,
                   clientVars, hookVars,
                   cacheVars, listVars>>

\* The response of another server behind /api/submit-ticket arrives.
ReceiveResponse(d) ==
    /\ fetching # NoFetch
    /\ request = NoRequest
    /\ FormSettle(d)
    /\ UNCHANGED <<httpVars, wsVars, toastVars, routeVars, validationVars, ticketVars,
                   clientVars, hookVars,
                   cacheVars, listVars>>

\* fetch rejects: the catch block answers.
FetchRejects ==
    /\ fetching # NoFetch
    /\ request = NoRequest
    /\ messages' = SelectSeq(messages, NotLoading)
                       \o <<Message("connectivity", <<>>, "")>>
    /\ isLoading' = FALSE
    /\ fetching' = NoFetch
    /\ data' = NoData
    /\ UNCHANGED inputText
    /\ UNCHANGED <<httpVars, wsVars, toastVars, routeVars, validationVars, ticketVars,
                   clientVars, hookVars,
                   cacheVars, listVars>>

ChatNext ==
    \/ \E text \in InputTexts : SetInputText(text)
    \/ HandleSubmit
    \/ ServeFetch
    \/ ReceiveRouteResponse
    \/ \E d \in ResponseData : ReceiveResponse(d)
    \/ FetchRejects

(***************************************************************************)
(* Email validation (src/unnamed/part_008, component-tests.ts)             *)
(***************************************************************************)
\* Characters of an email.
MaxEmailLen == 5

\* The characters typed: a letter, the letter s, '@', '.', a space and a
\* backslash.
EmailChars == {"a", "s", "@", ".", " ", "\\"}

\* /^[^\s@]+@[^\s@]+\.[^\s@]+$/.test(str), the pattern of the tests; its
\* class [^\s@] holds what is neither whitespace nor '@'.
testedPattern(str) ==
    \E i, j \in 1..Len(str) :
        /\ 1 < i /\ i + 1 < j /\ j < Len(str)
        /\ str[i] = "@"
        /\ str[j] = "."
        /\ \A k \in 1..Len(str) : k \notin {i, j} => str[k] \notin {" ", "@"}

\* /^[^\\s@]+@[^\\s@]+\\.[^\\s@]+$/.test(str), the pattern of the hook: in
\* the regular expression literal the doubled backslash is a backslash, so
\* the class holds what is neither a backslash, nor the letter s, nor '@',
\* and the separator is a backslash followed by any character.
hookPattern(str) ==
    \E i, j \in 1..Len(str) :
        /\ 1 < i /\ i + 1 < j /\ j + 1 < Len(str)
        /\ str[i] = "@"
        /\ str[j] = "\\"
        /\ \A k \in 1..Len(str) : k \notin {i, j, j + 1} => str[k] \notin {"\\", "s", "@"}

ValidationInit ==
    /\ email = <<>>
    /\ emailValid = "unchecked"
    /\ errors = "unset"

\* The user types a character into the email field.
TypeEmailChar(c) ==
    /\ Len(email) < MaxEmailLen
    /\ email' = Append(email, c)
    /\ emailValid' = "unchecked"
    /\ UNCHANGED errors
    /\ UNCHANGED <<httpVars, wsVars, toastVars, routeVars, formVars, ticketVars,
                   clientVars, hookVars,
                   cacheVars, listVars>>

\* validateEmail(email) of useFormValidation.
ValidateEmail ==
    /\ emailValid' = IF hookPattern(email) THEN "valid" ELSE "invalid"
    /\ errors' = IF hookPattern(email) THEN ""
                  ELSE "Please enter a valid email address"
    /\ UNCHANGED email
    /\ UNCHANGED <<httpVars, wsVars, toastVars, routeVars, formVars, ticketVars,
                   clientVars, hookVars,
                   cacheVars, listVars>>

ValidationNext ==
    \/ \E c \in EmailChars : TypeEmailChar(c)
    \/ ValidateEmail

(***************************************************************************)
(* Ticket status in useTickets (ai-desk-central-main/src/hooks)            *)
(***************************************************************************)
\* Calls of updateTicket.
MaxUpdates == 2

\* enum TicketStatus.
TicketStatus == {"open", "in_progress", "pending", "resolved", "closed"}

NoCall == [op |-> "none", status |-> "none", stage |-> "none"]

\* The place of a status in the lifecycle open -> in_progress ->
\* resolved/closed; 0 for a status outside it.
Rank(status) ==
    CASE status = "open" -> 1
      [] status = "in_progress" -> 2
      [] status \in {"resolved", "closed"} -> 3
      [] OTHER -> 0

TicketInit ==
    /\ serverStatus = "none"
    /\ cacheStatus = "none"
    /\ call = NoCall
    /\ wsEvents = <<>>
    /\ updateCalls = 0

\* useCreateTicket: mutationFn calls apiClient.createTicket.
CreateTicket ==
    /\ call = NoCall
    /\ serverStatus = "none"
    /\ call' = [op |-> "create", status |-> "none", stage |-> "sent"]
    /\ UNCHANGED <<serverStatus, cacheStatus, wsEvents, updateCalls>>
    /\ UNCHANGED <<httpVars, wsVars, toastVars, routeVars, formVars, validationVars,
                   clientVars, hookVars,
                   cacheVars, listVars>>

\* useUpdateTicket: mutationFn calls apiClient.updateTicket(id, {status}).
UpdateTicket(status) ==
    /\ call = NoCall
    /\ cacheStatus # "none"
    /\ updateCalls < MaxUpdates
    /\ updateCalls' = updateCalls + 1
    /\ call' = [op |-> "update", status |-> status, stage |-> "sent"]
    /\ UNCHANGED <<serverStatus, cacheStatus, wsEvents>>
    /\ UNCHANGED <<httpVars, wsVars, toastVars, routeVars, formVars, validationVars,
                   clientVars, hookVars,
                   cacheVars, listVars>>

\* The backend handles the call: a created ticket is open; an update is
\* stored when it keeps the ticket in the lifecycle and does not move it
\* back, and is refused otherwise; every change is sent to the WebSocket
\* clients as a ticket event.
ServerHandles ==
    /\ call.stage = "sent"
    /\ LET stored == IF call.op = "create" THEN "open" ELSE call.status
           accepted == \/ call.op = "create"
                       \/ Rank(stored) # 0 /\ Rank(stored) >= Rank(serverStatus)
       IN  IF accepted
           THEN /\ serverStatus' = stored
                /\ wsEvents' = Append(wsEvents, stored)
                /\ call' = [call EXCEPT !.status = stored, !.stage = "answered"]
           ELSE /\ call' = [call EXCEPT !.stage = "refused"]
                /\ UNCHANGED <<serverStatus, wsEvents>>
    /\ UNCHANGED <<cacheStatus, updateCalls>>
    /\ UNCHANGED <<httpVars, wsVars, toastVars, routeVars, formVars, validationVars,
                   clientVars, hookVars,
                   cacheVars, listVars>>

\* The call returns.  onSuccess writes the returned ticket into the cache;
\* on a rejection mutationFn calls handleApiError and the cache is kept.
CallReturns ==
    /\ call.stage \in {"answered", "refused"}
    /\ call' = NoCall
    /\ IF call.stage = "answered"
       THEN /\ cacheStatus' = call.status
            /\ UNCHANGED toastVars
       ELSE /\ caught' = [class |-> "APIError", status |-> 400,
                          message |-> "Ticket not found"]
            /\ toasts' = toasts \o handleApiError(caught')
            /\ UNCHANGED cacheStatus
    /\ UNCHANGED <<serverStatus, wsEvents, updateCalls>>
    /\ UNCHANGED <<httpVars, wsVars, routeVars, formVars, validationVars,
                   clientVars, hookVars,
                   cacheVars, listVars>>

\* A ticket_created or ticket_update event arrives: the listener of
\* useTickets writes the ticket of the event into the cache.
TicketEvent ==
    /\ wsEvents # <<>>
    /\ cacheStatus' = Head(wsEvents)
    /\ wsEvents' = Tail(wsEvents)
    /\ UNCHANGED <<serverStatus, call, updateCalls>>
    /\ UNCHANGED <<httpVars, wsVars, toastVars, routeVars, formVars, validationVars,
                   clientVars, hookVars,
                   cacheVars, listVars>>

TicketNext ==
    \/ CreateTicket
    \/ \E status \in TicketStatus : UpdateTicket(status)
    \/ ServerHandles
    \/ CallReturns
    \/ TicketEvent

(***************************************************************************)
(* APIClient.logout                                                        *)
(***************************************************************************)
NoLogout == [outcome |-> "none", error |-> NoError]

LogoutInit == logout = NoLogout /\ mounted = {}

\* The effect of useTickets run by a consumer (its wsRef.current is false):
\* connectWebSocket(), then onTicketCreated and onTicketUpdate register
\* its callbacks.
Mount(c) ==
    /\ c \notin mounted
    /\ mounted' = mounted \cup {c}
    /\ connectCalls < MaxConnectCalls
    /\ connectCalls' = connectCalls + 1
    /\ connect("all", timers)
    /\ listeners' = listeners \cup {<<"ticket_created", c>>, <<"ticket_update", c>>}
    /\ handled' = NoHandled
    /\ UNCHANGED <<urlThrows, autoConnects, logout>>
    /\ UNCHANGED <<httpVars, toastVars, routeVars, formVars, validationVars,
                   ticketVars, hookVars, cacheVars, listVars>>

\* The cleanup of that effect when the consumer unmounts:
\* disconnectWebSocket(), wsRef.current = false.
Unmount(c) ==
    /\ c \in mounted
    /\ mounted' = mounted \ {c}
    /\ disconnect
    /\ UNCHANGED logout
    /\ UNCHANGED <<httpVars, toastVars, routeVars, formVars, validationVars,
                   ticketVars, hookVars, cacheVars, listVars>>

\* Components that use useTickets mount and unmount while the sockets of
\* the shared apiClient open, deliver frames and close.
MountNext ==
    \/ \E c \in Callbacks : Mount(c)
    \/ \E c \in Callbacks : Unmount(c)
    \/ \E s \in SocketIds : SocketOpen(s)
    \/ \E s \in SocketIds, frame \in Frames : SocketMessage(s, frame)
    \/ \E s \in SocketIds, code \in CloseCodes : SocketClose(s, code)
    \/ \E d \in DelayValues : ReconnectTimer(d)

\* logout is the caller of call 1 (`await this.http.post('/auth/logout')`),
\* the promise of that call has settled and the rest of logout has not
\* run yet.  It runs as a microtask of the task that settled the promise.
LogoutSettled == req[1].pc = "done" /\ logout = NoLogout

\* The finally block of logout: clearToken, disconnect; then the promise of
\* logout settles as the call did.
LogoutFinally ==
    /\ LogoutSettled
    /\ tokenMem' = FALSE
    /\ tokenLS' = FALSE
    /\ disconnect
    /\ logout' = [outcome |-> IF req[1].result = NoError
                              THEN "resolved" ELSE "rejected",
                  error |-> req[1].result]
    /\ UNCHANGED mounted
    /\ UNCHANGED <<req, controller, online, everOffline>>
    /\ UNCHANGED <<toastVars, routeVars, formVars, validationVars, ticketVars,
                   hookVars, cacheVars, listVars>>

\* logout called once on a client whose WebSocket was connected once: the
\* steps of its request, the events of the sockets, and the finally block
\* as soon as the request has settled.
LogoutNext ==
    \/ LogoutFinally
    \/ ~LogoutSettled /\ RequestBegin(1)
    \/ ~LogoutSettled /\ RequestFetch(1)
    \/ ~LogoutSettled /\ \E status \in Statuses : FetchResponse(1, status)
    \/ ~LogoutSettled /\ \E body \in Bodies, jitter \in Jitters :
                             BodyRead(1, body, jitter, FALSE)
    \/ ~LogoutSettled /\ \E msgFetch \in BOOLEAN : FetchFails(1, msgFetch)
    \/ ~LogoutSettled /\ \E jitter \in [Requests -> Jitters] :
                             RequestTimeout(1, jitter)
    \/ ~LogoutSettled /\ SleepDone(1)
    \/ ~LogoutSettled /\ \E topic \in Topics : ConnectOnce(topic)
    \/ ~LogoutSettled /\ \E s \in SocketIds : SocketOpen(s)
    \/ ~LogoutSettled /\ \E s \in SocketIds, code \in CloseCodes : SocketClose(s, code)
    \/ ~LogoutSettled /\ \E d \in DelayValues : ReconnectTimer(d)

(***************************************************************************)
(* useTickets with useState (src/unnamed/part_008)                         *)
(***************************************************************************)
\* Tickets created.
MaxTickets == 2

NoFetchCall == [stage |-> "none", tickets |-> <<>>]

HookInit ==
    /\ hook = [tickets |-> <<>>, loading |-> FALSE, error |-> FALSE]
    /\ backend = <<>>
    /\ refreshing = NoFetchCall
    /\ creating = NoFetchCall

\* refresh() up to its await of fetch('/api/tickets').
HookRefresh ==
    /\ refreshing = NoFetchCall
    /\ refreshing' = [NoFetchCall EXCEPT !.stage = "sent"]
    /\ hook' = [hook EXCEPT !.loading = TRUE, !.error = FALSE]
    /\ UNCHANGED <<backend, creating>>
    /\ UNCHANGED <<httpVars, wsVars, toastVars, routeVars, formVars, validationVars,
                   ticketVars, clientVars,
                   cacheVars, listVars>>

\* createTicket(data) up to its await of fetch('/api/tickets', POST).
HookCreateTicket ==
    /\ creating = NoFetchCall
    /\ Len(backend) < MaxTickets
    /\ creating' = [NoFetchCall EXCEPT !.stage = "sent"]
    /\ hook' = [hook EXCEPT !.loading = TRUE, !.error = FALSE]
    /\ UNCHANGED <<backend, refreshing>>
    /\ UNCHANGED <<httpVars, wsVars, toastVars, routeVars, formVars, validationVars,
                   ticketVars, clientVars,
                   cacheVars, listVars>>

\* The backend handles a request: GET answers the tickets it holds, POST
\* stores a new ticket and answers it; ok = FALSE is an error response.
ServerAnswers(op, ok) ==
    /\ UNCHANGED hook
    /\ IF op = "refresh"
       THEN /\ refreshing.stage = "sent"
            /\ refreshing' = IF ok THEN [stage |-> "ok", tickets |-> backend]
                             ELSE [stage |-> "failed", tickets |-> <<>>]
            /\ UNCHANGED <<backend, creating>>
       ELSE /\ creating.stage = "sent"
            /\ backend' = IF ok THEN <<Len(backend) + 1>> \o backend ELSE backend
            /\ creating' = IF ok THEN [stage |-> "ok", tickets |-> <<Len(backend) + 1>>]
                           ELSE [stage |-> "failed", tickets |-> <<>>]
            /\ UNCHANGED refreshing
    /\ UNCHANGED <<httpVars, wsVars, toastVars, routeVars, formVars, validationVars,
                   ticketVars, clientVars,
                   cacheVars, listVars>>

\* refresh() after its awaits: setTickets(data), or setError in the catch
\* block, and setLoading(false).
RefreshReturns ==
    /\ refreshing.stage \in {"ok", "failed"}
    /\ hook' = IF refreshing.stage = "ok"
               THEN [hook EXCEPT !.tickets = refreshing.tickets, !.loading = FALSE]
               ELSE [hook EXCEPT !.error = TRUE, !.loading = FALSE]
    /\ refreshing' = NoFetchCall
    /\ UNCHANGED <<backend, creating>>
    /\ UNCHANGED <<httpVars, wsVars, toastVars, routeVars, formVars, validationVars,
                   ticketVars, clientVars,
                   cacheVars, listVars>>

\* createTicket after its awaits: setTickets(prev => [newTicket, ...prev]),
\* or setError in the catch block, and setLoading(false).
CreateReturns ==
    /\ creating.stage \in {"ok", "failed"}
    /\ hook' = IF creating.stage = "ok"
               THEN [hook EXCEPT !.tickets = creating.tickets \o @, !.loading = FALSE]
               ELSE [hook EXCEPT !.error = TRUE, !.loading = FALSE]
    /\ creating' = NoFetchCall
    /\ UNCHANGED <<backend, refreshing>>
    /\ UNCHANGED <<httpVars, wsVars, toastVars, routeVars, formVars, validationVars,
                   ticketVars, clientVars,
                   cacheVars, listVars>>

HookNext ==
    \/ HookRefresh
    \/ HookCreateTicket
    \/ \E op \in {"refresh", "create"}, ok \in BOOLEAN : ServerAnswers(op, ok)
    \/ RefreshReturns
    \/ CreateReturns

(***************************************************************************)
(* useDeleteTicket (ai-desk-central-main/src/hooks/useTickets.ts)          *)
(***************************************************************************)
TicketIds == 1..MaxTickets

\* The query keys of the cached lists (ticketKeys.list(filters)).
ListKeys == {"all", "filtered"}

\* Nothing is cached under a list key (oldData is undefined).
Undefined == [cached |-> FALSE, tickets |-> <<>>, total |-> 0]

\* What the cache can hold under a list key: nothing, or a
\* TicketListResponse: one page of tickets and the total of the query,
\* which counts the tickets of the other pages too.
CachedLists ==
    {Undefined} \cup
    UNION {{[cached |-> TRUE, tickets |-> SetToSeq(held), total |-> total] :
               total \in Cardinality(held)..MaxTickets} : held \in SUBSET TicketIds}

NoDelete == [id |-> 0, stage |-> "none", deleted |-> {}]

\* The updater of onSuccess: the tickets other than deletedId, total - 1.
removeFromList(oldData, deletedId) ==
    IF ~oldData.cached THEN oldData
    ELSE [oldData EXCEPT
            !.tickets = SelectSeq(@, LAMBDA ticket : ticket # deletedId),
            !.total = @ - 1]

\* No list is cached and no ticket is being deleted.
NoLists == lists = [k \in ListKeys |-> Undefined] /\ deleting = NoDelete

DeleteInit ==
    /\ lists \in [ListKeys -> CachedLists]
    /\ deleting = NoDelete

\* mutate(id), for a ticket that was not deleted before: mutationFn calls
\* apiClient.deleteTicket(id).
DeleteTicket(id) ==
    /\ deleting.stage # "sent"
    /\ id \notin deleting.deleted
    /\ deleting' = [deleting EXCEPT !.id = id, !.stage = "sent"]
    /\ UNCHANGED lists
    /\ UNCHANGED <<httpVars, wsVars, toastVars, routeVars, formVars, validationVars,
                   ticketVars, clientVars, hookVars, listVars>>

\* deleteTicket settles.  Resolved: onSuccess applies the updater to every
\* cached list.  Rejected: mutationFn calls handleApiError.
DeleteReturns(ok) ==
    /\ deleting.stage = "sent"
    /\ IF ok
       THEN /\ lists' = [k \in ListKeys |-> removeFromList(lists[k], deleting.id)]
            /\ deleting' = [deleting EXCEPT !.stage = "deleted",
                                            !.deleted = @ \cup {deleting.id}]
            /\ UNCHANGED toastVars
       ELSE /\ Len(toasts) < MaxToasts
            /\ caught' = [class |-> "APIError", status |-> 404,
                          message |-> "Ticket not found"]
            /\ toasts' = toasts \o handleApiError(caught')
            /\ deleting' = [deleting EXCEPT !.stage = "failed"]
            /\ UNCHANGED lists
    /\ UNCHANGED <<httpVars, wsVars, routeVars, formVars, validationVars,
                   ticketVars, clientVars, hookVars, listVars>>

DeleteNext ==
    \/ \E id \in TicketIds : DeleteTicket(id)
    \/ \E ok \in BOOLEAN : DeleteReturns(ok)

(***************************************************************************)
(* TicketList (ai-desk-central-main/src/components/TicketList.tsx)         *)
(***************************************************************************)
\* Pages of a filter result.
MaxPages == 3

\* The combinations of search term and filters: none, a status filter, a
\* search term.
Filters == {"none", "status", "search"}

\* pagination while the query has no data.
NoPagination == [page |-> 0, pages |-> 0]

ListInit ==
    /\ page = 1
    /\ filters = "none"
    /\ pagination = NoPagination

\* The backend has one page for every filter.
OnePage == pagesOf = [f \in Filters |-> 1]

\* setSearchTerm, setStatusFilter, setPriorityFilter or setCategoryFilter:
\* the query key changes and the query of the new key has no data yet.
SetFilter(f) ==
    /\ f # filters
    /\ filters' = f
    /\ pagination' = NoPagination
    /\ UNCHANGED <<page, pagesOf>>
    /\ UNCHANGED <<httpVars, wsVars, toastVars, routeVars, formVars, validationVars,
                   ticketVars, clientVars, hookVars, cacheVars>>

\* The query of the current key gets its data: the page asked for and the
\* number of pages of the filter result.
QueryLoads ==
    /\ pagination = NoPagination
    /\ pagination' = [page |-> page, pages |-> pagesOf[filters]]
    /\ UNCHANGED <<page, filters, pagesOf>>
    /\ UNCHANGED <<httpVars, wsVars, toastVars, routeVars, formVars, validationVars,
                   ticketVars, clientVars, hookVars, cacheVars>>

\* A click on Previous (by = -1) or Next (by = 1): the buttons are rendered
\* when pagination.pages > 1, and disabled at the first and the last page.
TurnPage(by) ==
    /\ pagination # NoPagination
    /\ pagination.pages > 1
    /\ IF by = 1 THEN pagination.page < pagination.pages ELSE pagination.page > 1
    /\ page' = page + by
    /\ pagination' = NoPagination
    /\ UNCHANGED <<filters, pagesOf>>
    /\ UNCHANGED <<httpVars, wsVars, toastVars, routeVars, formVars, validationVars,
                   ticketVars, clientVars, hookVars, cacheVars>>

ListNext ==
    \/ \E f \in Filters : SetFilter(f)
    \/ QueryLoads
    \/ \E by \in {-1, 1} : TurnPage(by)

\* The parts of the application other than the cached lists and the
\* backend of the TicketList, at rest.
AppRest ==
    /\ ToastInit /\ RouteInit /\ FormInit /\ ValidationInit /\ TicketInit
    /\ LogoutInit /\ HookInit /\ ListInit

AppInit == AppRest /\ NoLists /\ OnePage

(***************************************************************************)
(* Specifications                                                          *)
(***************************************************************************)
\* The API client before any call: no request, no socket, no token.
ClientIdle ==
    /\ HttpInit
    /\ tokenLS = FALSE
    /\ WsInit
    /\ urlThrows = {}

\* HTTPClient under test; the WebSocketClient is never connected.
InitHttp ==
    /\ HttpInit
    /\ WsInit
    /\ urlThrows = {}
    /\ AppInit

\* WebSocketClient under test; no HTTP call is made and no token is stored.
InitWs ==
    /\ HttpInit
    /\ tokenLS = FALSE
    /\ WsInit
    /\ AppInit

\* A logged-in client: the token is stored, no call made, no socket.
InitLogout ==
    /\ HttpInit
    /\ tokenLS = TRUE
    /\ WsInit
    /\ urlThrows = {}
    /\ AppInit

\* The application with ticket lists in the query cache.
InitDelete == ClientIdle /\ AppRest /\ DeleteInit /\ OnePage

\* The TicketList on a backend that has any number of pages per filter.
InitList ==
    /\ ClientIdle /\ AppRest /\ NoLists
    /\ pagesOf \in [Filters -> 1..MaxPages]

\* The application before any request, submission or validation, with
\* the API client idle.
InitApp ==
    /\ ClientIdle
    /\ AppInit

\* HTTPClient: every caller may call while other calls are in flight.
SpecHttp == InitHttp /\ [][HttpNext]_vars

\* HTTPClient: the callers await each call before they make the next.
SpecHttpSeq == InitHttp /\ [][HttpSeqNext]_vars

\* WebSocketClient.
SpecWs == InitWs /\ [][WsNext]_vars

\* WebSocketClient: subscriptions and frames on a client connected once.
SpecWsEvents == InitWs /\ [][WsEventsNext]_vars

\* POST /api/submit-ticket answering requests with any body.
SpecRoute == InitApp /\ [][RouteNext]_vars

\* The chat form, its fetch answered by the route handler or another server.
SpecChat == InitApp /\ [][ChatNext]_vars

\* validateEmail applied to the emails a user types.
SpecValidation == InitApp /\ [][ValidationNext]_vars

\* useTickets of part_008: refresh and createTicket called while the
\* other may be in flight.
SpecHook == InitApp /\ [][HookNext]_vars

\* useDeleteTicket on a cache that holds any lists.
SpecDelete == InitDelete /\ [][DeleteNext]_vars

\* The consumers of useTickets on the shared apiClient.
SpecMount == InitApp /\ [][MountNext]_vars

\* TicketList: filters chosen and pages turned.
SpecList == InitList /\ [][ListNext]_vars

\* APIClient.logout on a client with a stored token.
SpecLogout == InitLogout /\ [][LogoutNext]_vars

\* The ticket hooks: one ticket created and updated through apiClient,
\* with the live events of the backend.
SpecTickets == InitApp /\ [][TicketNext]_vars

\* handleApiError applied to the values a catch block can hold.
SpecToast == InitApp /\ [][ToastNext]_vars

\* WebSocketClient; a timer that was set fires (setTimeout callbacks run).
SpecWsFair ==
    /\ SpecWs
    /\ WF_vars(\E d \in DelayValues : ReconnectTimer(d))

(***************************************************************************)
(* Properties of HTTPClient.request                                        *)
(***************************************************************************)
\* Statuses for which isRetryableError answers true: 5xx and 429.
RetryableStatuses == {s \in Statuses : s >= 500 \/ s = 429}

\* 4xx statuses other than 429.
ClientErrorStatuses == {s \in Statuses : s >= 400 /\ s < 500 /\ s # 429}

TypedErrorNames == {"APIError", "NetworkError", "TimeoutError"}

\* The attempt of call r that received a response has ended.
AttemptEnded(r) == req[r].status # 0 /\ req[r].pc \in {"sleeping", "done"}

\* C1: while the browser stays online, a call whose attempts keep receiving
\* 5xx or 429 responses is retried at most MAX_RETRIES = 3 times (4 fetches
\* in total) and then rejects with the APIError of the last response.
C1_RetriesBoundedThenAPIError ==
    \A r \in Requests :
        (~everOffline /\ AttemptEnded(r) /\ req[r].status \in RetryableStatuses)
        => /\ req[r].fetches <= 4
           /\ req[r].pc = "sleeping" => req[r].retryAttempt < 3
           /\ req[r].pc = "done" => /\ req[r].fetches = 4
                                    /\ req[r].result = APIError(req[r].status)

\* C2: a call whose fetch is still pending when its timeout timer fires is
\* aborted and rejects with TimeoutError, and on every other exit of an
\* attempt the timer has been cleared.
C2_TimeoutAbortsOwnRequest ==
    /\ [][\A r \in Requests :
            (req[r].timer = "armed" /\ req'[r].timer = "fired")
            => (req'[r].pc = "done" /\ req'[r].result = TimeoutError)]_vars
    /\ [](\A r \in Requests :
            req[r].pc \notin {"setup", "fetching"} => req[r].timer # "armed")

\* C3: every rejection of request is an APIError, a NetworkError or a
\* TimeoutError.
C3_RejectionsAreTyped ==
    \A r \in Requests :
        (req[r].pc = "done" /\ req[r].result # NoError)
        => req[r].result.name \in TypedErrorNames

\* C4: a call that receives a 4xx response other than 429 is not retried:
\* it issues no further fetch (exactly one when the response answers the
\* first attempt) and rejects with an APIError carrying that status.
C4_ClientErrorNotRetried ==
    \A r \in Requests :
        (AttemptEnded(r) /\ req[r].status \in ClientErrorStatuses)
        => /\ req[r].pc = "done"
           /\ req[r].fetches = req[r].retryAttempt + 1
           /\ req[r].result = APIError(req[r].status)

\* C5: the delay slept before the k-th retry (k = 0, 1, 2) is at least
\* 1000 * 2^k ms and less than 1000 * 2^k + 1000 ms, and each retry delay of
\* a call is greater than the one before it.
C5_BackoffDelayBounds ==
    /\ [](\A r \in Requests :
            req[r].pc = "sleeping"
            => /\ req[r].retryAttempt \in 0..2
               /\ req[r].delay >= 1000 * Pow2(req[r].retryAttempt)
               /\ req[r].delay < 1000 * Pow2(req[r].retryAttempt) + 1000)
    /\ [][\A r \in Requests :
            (req[r].pc # "sleeping" /\ req'[r].pc = "sleeping")
            => req'[r].delay > req[r].delay]_vars

\* A call sleeps before its third retry, after two earlier retry delays.
C5_Witness ==
    \E r \in Requests : req[r].pc = "sleeping" /\ req[r].retryAttempt = 2

\* C6: an attempt that ends without a response, by timeout or by network
\* failure, is retried as long as fewer than MAX_RETRIES = 3 retries were
\* made, so such a failure ends a call only after three retries.
C6_TimeoutAndNetworkRetried ==
    \A r \in Requests :
        (/\ req[r].pc = "done"
         /\ req[r].status = 0
         /\ req[r].result.name \in {"TimeoutError", "NetworkError"})
        => req[r].retryAttempt = 3

(***************************************************************************)
(* Properties of WebSocketClient                                           *)
(***************************************************************************)
\* The sockets that are connecting or open.  Every socket connect created
\* keeps its four handlers, so the events of each reach the listeners.
LiveSockets == {s \in SocketIds : sockets[s].readyState \in {"connecting", "open"}}

\* C7: at any time at most one WebSocket of the client is connecting or open
\* with its events reaching the listeners.
C7_AtMostOneLiveSocket == Cardinality(LiveSockets) <= 1

\* C8: a close with a code other than 1000 while fewer than 5 reconnects
\* were scheduled since the last open schedules a reconnect, after which
\* connect is eventually called again; a close with code 1000 schedules none.
C8_AbnormalCloseReconnects ==
    /\ [](console.ev = "closed"
          => (console.delay # 0 <=> (console.code # 1000 /\ console.attempts < 5)))
    /\ ((console.ev = "closed" /\ console.delay # 0)
          ~> (console.ev \in {"connect", "connect_failed"}))

\* The fifth reconnect since the last open was scheduled by an abnormal close.
C8_Witness ==
    /\ console.ev = "closed"
    /\ console.code = 1006
    /\ console.attempts = 4
    /\ console.delay # 0

\* C9: without an intervening successful open the client makes at most
\* maxReconnectAttempts = 5 automatic reconnection attempts.
C9_AtMostFiveAutoReconnects == autoConnects <= 5

\* C10: a scheduled reconnect delay is 1000 * 2^n ms, n being the number of
\* reconnects scheduled since the last open (0 again on open), and no
\* scheduled delay exceeds 16000 ms.
C10_ReconnectDelayCapped ==
    /\ console.delay # 0 => console.delay = 1000 * Pow2(console.attempts)
    /\ console.ev = "connected" => reconnectAttempts = 0
    /\ \A d \in BagToSet(timers) : d <= 16000

\* C11: after connect(ticketId), every automatic reconnection opens the
\* ticket-specific URL again: the socket a reconnect timer creates has the
\* topic of the socket it replaces.
C11_ReconnectKeepsTicketTopic ==
    [][(/\ connectCalls = 1
        /\ autoConnects' = autoConnects + 1
        /\ ws # NoSocket
        /\ ws' # ws)
       => sockets'[ws'].topic = sockets[ws].topic]_vars

\* C12: after disconnect() the client creates no WebSocket until the caller
\* calls connect() again, also when a reconnect timer is still pending: a
\* step that gives the disconnected client a socket is a call of connect.
C12_NoSocketAfterDisconnect ==
    [][(urlThrows = {} /\ ws = NoSocket /\ ws' # NoSocket)
       => connectCalls' = connectCalls + 1]_vars

\* How often the handler of a frame calls emit(event).
EmitsOf(frame, event) ==
    IF frame = "unparseable" THEN 0
    ELSE (IF event = "message" THEN 1 ELSE 0) + (IF event = frame THEN 1 ELSE 0)

\* How often the last handler invoked callback through emit(event).
Invocations(event, callback) ==
    Cardinality({i \in 1..Len(handled.calls) : handled.calls[i] = <<event, callback>>})

\* C13: every emit of an event invokes each callback registered under that
\* event name at that time exactly once and no callback registered only
\* under other names; on adds the one callback, off(event, cb) removes
\* only cb, and off(event) removes every callback of that event.
C13_EmitInvokesRegisteredOnce ==
    /\ [](handled.op = "frame" =>
            \A event \in Events, callback \in Callbacks :
                Invocations(event, callback) =
                    IF <<event, callback>> \in listeners
                    THEN EmitsOf(handled.event, event) ELSE 0)
    /\ [][/\ handled'.op = "on" =>
               listeners' = listeners \cup {<<handled'.event, handled'.callback>>}
          /\ (handled'.op = "off" /\ handled'.callback # "none") =>
               listeners' = listeners \ {<<handled'.event, handled'.callback>>}
          /\ (handled'.op = "off" /\ handled'.callback = "none") =>
               /\ \A l \in listeners' : l[1] # handled'.event
               /\ \A l \in listeners : l[1] # handled'.event => l \in listeners'
               /\ listeners' \subseteq listeners]_vars

\* A ticket_update frame arrives while both callbacks are registered under
\* ticket_update and only the first of them under message.
C13_Witness ==
    /\ handled.op = "frame"
    /\ handled.event = "ticket_update"
    /\ listeners = {<<"ticket_update", "cb1">>, <<"ticket_update", "cb2">>,
                    <<"message", "cb1">>}
    /\ Len(handled.calls) = 3

\* The callbacks registered under event.
ListenersOf(event) == {c \in Callbacks : <<event, c>> \in listeners}

\* C23: for a frame that parses as JSON the 'message' listeners are invoked
\* first and then, when the payload has a truthy type, the listeners of the
\* event of that name; a frame that does not parse invokes no listener and
\* leaves the connection and the reconnect counter as they are.
C23_MessageThenTypeListeners ==
    /\ [](handled.op = "frame" =>
            LET calls == handled.calls
                n == Cardinality(ListenersOf("message"))
                typed == IF handled.event \in Events
                         THEN ListenersOf(handled.event) ELSE {}
            IN  IF handled.event = "unparseable" THEN calls = <<>>
                ELSE /\ Len(calls) = n + Cardinality(typed)
                     /\ \A i \in 1..Len(calls) :
                           calls[i][1] = IF i <= n THEN "message" ELSE handled.event
                     /\ {calls[i][2] : i \in 1..n} = ListenersOf("message")
                     /\ {calls[i][2] : i \in (n + 1)..Len(calls)} = typed)
    /\ [][handled'.op = "frame" /\ handled'.event = "unparseable"
            => UNCHANGED <<sockets, ws, reconnectAttempts, timers, listeners>>]_vars

\* A ticket_update frame arrived while cb1 listens to message and cb2 to
\* ticket_update: cb1 was invoked, then cb2.
C23_Witness ==
    /\ handled.op = "frame"
    /\ handled.event = "ticket_update"
    /\ handled.calls = << <<"message", "cb1">>, <<"ticket_update", "cb2">> >>

(***************************************************************************)
(* Properties of handleApiError                                            *)
(***************************************************************************)
\* The toast C14 names for an error, APIErrors other than 429 and 500 aside.
ToastByClass(error) ==
    IF error.class = "NetworkError"
    THEN "Network connection failed. Please check your internet connection."
    ELSE IF error.class = "TimeoutError"
    THEN "Request timed out. Please try again."
    ELSE IF error.class # "APIError"
    THEN "An unexpected error occurred. Please try again."
    ELSE IF error.status = 429
    THEN "Too many requests. Please wait a moment and try again."
    ELSE IF error.status = 500
    THEN "Server error occurred. Please try again later."
    ELSE "other"

\* C14: handleApiError shows exactly one toast: the network message for a
\* NetworkError, the timeout message for a TimeoutError, the rate-limit
\* message for an APIError 429, the server-error message for an APIError
\* 500, the error's own message for any other APIError, and the generic
\* message for anything else.
C14_OneToastPerError ==
    [][toasts' # toasts =>
        toasts' = Append(toasts, IF ToastByClass(caught') = "other"
                                 THEN caught'.message
                                 ELSE ToastByClass(caught'))]_vars

\* C14, amended: as above, except that an APIError other than 429 and 500
\* shows its own message only when that message is not empty, and the
\* fallback 'An error occurred while processing your request.' otherwise.
C14_OneToastPerErrorAmended ==
    [][toasts' # toasts =>
        toasts' = Append(toasts,
            IF ToastByClass(caught') # "other" THEN ToastByClass(caught')
            ELSE IF caught'.message # "" THEN caught'.message
            ELSE "An error occurred while processing your request.")]_vars

\* handleApiError was called with an APIError whose message is empty
\* and then with an APIError 500.
C14_Witness ==
    /\ Len(toasts) = 2
    /\ toasts[1] = "An error occurred while processing your request."
    /\ caught = [class |-> "APIError", status |-> 500, message |-> "Ticket not found"]

(***************************************************************************)
(* Properties of POST /api/submit-ticket                                   *)
(***************************************************************************)
\* Every character of the text is a space.
Blank(chars) == \A i \in 1..Len(chars) : chars[i] = " "

\* C16: a body whose text is missing, empty or whitespace-only is answered
\* with status 400, {error: 'Ticket text is required'} and no ticket; a
\* body with non-blank text is answered with 200 and a ticket; an exception
\* raised while processing is answered with status 500 and
\* {error: 'Failed to process ticket'}.
C16_SubmitTicketStatuses ==
    /\ (/\ request.kind = "object"
        /\ \/ request.text.type = "undefined"
           \/ request.text.type = "string" /\ Blank(request.text.chars))
       => /\ response.status = 400
          /\ response.error = "Ticket text is required"
          /\ response.ticket = NoTicket
    /\ (/\ request.kind = "object"
        /\ request.text.type = "string"
        /\ ~Blank(request.text.chars))
       => /\ response.status = 200
          /\ response.error = ""
          /\ response.ticket # NoTicket
    /\ routeConsole = "Error processing ticket:"
       => /\ response.status = 500
          /\ response.error = "Failed to process ticket"
          /\ response.ticket = NoTicket

\* A body whose text is a single space was answered.
C16_Witness ==
    /\ request.kind = "object"
    /\ request.text = [type |-> "string", chars |-> <<" ">>]
    /\ response.status = 400

\* C17: every ticket the route returns has status 'open', a source among
\* web/email/sms/glpi/solman, an urgency among Low/Medium/High/Critical and
\* a category among the six categories.
C17_TicketFieldsEnumerated ==
    response.status = 200
    => /\ response.ticket.status = "open"
       /\ response.ticket.source \in {"web", "email", "sms", "glpi", "solman"}
       /\ response.ticket.urgency \in {"Low", "Medium", "High", "Critical"}
       /\ response.ticket.category \in
              {"Network/VPN", "Email", "Hardware", "Software",
               "Account Access", "General Support"}

C19_ValidateEmailMatchesTestedPattern ==
    emailValid # "unchecked"
    => /\ testedPattern(email) <=>
             \E i, j \in 1..Len(email) :
                 LET local == SubSeq(email, 1, i - 1)
                     domain == SubSeq(email, i + 1, j - 1)
                     tld == SubSeq(email, j + 1, Len(email))
                 IN  /\ i < j
                     /\ email = local \o <<"@">> \o domain \o <<".">> \o tld
                     /\ \A part \in {local, domain, tld} :
                            /\ part # <<>>
                            /\ \A k \in 1..Len(part) : part[k] \notin {" ", "@"}
       /\ (emailValid = "valid") <=> testedPattern(email)

(***************************************************************************)
(* Properties of the chat form                                             *)
(***************************************************************************)
\* The positions in the list of the messages of the given kinds.
Where(kinds) == {i \in 1..Len(messages) : messages[i].kind \in kinds}

\* The kinds of the messages handleSubmit appends when its request settles.
Replies == {"ai_response", "categorized", "connectivity"}

C25_CreatedTicketStays ==
    [][\A i \in 1..Len(hook.tickets) :
          \E j \in 1..Len(hook.tickets') : hook.tickets'[j] = hook.tickets[i]]_vars

\* C26: after a successful deleteTicket(id) no cached list contains id, and
\* the total of each cached list has gone down by exactly the number of
\* tickets removed from that list, so it is unchanged for a list that did
\* not contain id.
C26_TotalFollowsRemoval ==
    [][deleting.stage = "sent" /\ deleting'.stage = "deleted"
         => \A k \in ListKeys :
               lists[k].cached
               => /\ lists'[k].cached
                  /\ \A i \in 1..Len(lists'[k].tickets) :
                        lists'[k].tickets[i] # deleting.id
                  /\ lists'[k].total =
                        lists[k].total
                          - (Len(lists[k].tickets) - Len(lists'[k].tickets))]_vars

\* C27: the live-update listeners of a mounted useTickets consumer stay
\* registered on the shared apiClient, and the consumer keeps receiving
\* ticket_update events, when another consumer unmounts.
C27_ListenersSurviveOtherUnmount ==
    /\ [][\A c \in mounted \cap mounted' :
            \A event \in {"ticket_created", "ticket_update"} :
                <<event, c>> \in listeners => <<event, c>> \in listeners']_vars
    /\ [](handled.op = "frame" /\ handled.event = "ticket_update"
            => \A c \in mounted :
                  \E i \in 1..Len(handled.calls) :
                      handled.calls[i] = <<"ticket_update", c>>)

\* C28: the page TicketList asks for always lies between 1 and the number
\* of pages of the current filter result, also after the search term or a
\* filter is changed while a later page is shown.
C28_PageWithinPages == page >= 1 /\ page <= pagesOf[filters]

(***************************************************************************)
(* Properties of the stored token                                          *)
(***************************************************************************)
\* C21: once a 401 response has been handled the token is absent from
\* memory and from localStorage; a request started (or retried) while it is
\* absent is sent without an Authorization header; and the token comes
\* back only through the setToken of a login whose request succeeded.
C21_NoTokenAfter401 ==
    [][\A r \in Requests :
         /\ (/\ req[r].pc = "reading_err" /\ req[r].status = 401
             /\ req'[r].pc # "reading_err")
            => ~tokenMem' /\ ~tokenLS'
         /\ (/\ ~tokenMem /\ ~tokenLS
             /\ req[r].pc # "setup" /\ req'[r].pc = "setup")
            => ~req'[r].auth
         /\ (~tokenMem /\ ~tokenLS /\ (tokenMem' \/ tokenLS'))
            => \E q \in Requests :
                  /\ req[q].pc = "reading_ok"
                  /\ req'[q].pc = "done" /\ req'[q].result = NoError]_vars

\* A call was answered 401 and the token is gone; the next call has been
\* sent, without an Authorization header.
C21_Witness ==
    /\ req[1].pc = "done" /\ req[1].result = APIError(401)
    /\ ~tokenMem /\ ~tokenLS
    /\ req[2].pc = "fetching" /\ ~req[2].auth

C18_StatusMovesForward ==
    /\ [](cacheStatus # "none" => Rank(cacheStatus) # 0)
    /\ [][cacheStatus # "none" => Rank(cacheStatus') >= Rank(cacheStatus)]_vars

(***************************************************************************)
(* Properties of concurrent calls of HTTPClient.request                    *)
(***************************************************************************)
\* C20: with several calls in flight on the one HTTPClient, the timeout
\* timer of a call aborts that call only, and every call still pending when
\* its own timer fires is aborted.
C20_TimerAbortsOnlyItsRequest ==
    [][\A r \in Requests :
         (req[r].timer = "armed" /\ req'[r].timer = "fired")
         => /\ req[r].pc = "fetching" => req'[r].pc # "fetching"
            /\ \A q \in Requests \ {r} : req'[q] = req[q]]_vars

====
